---- MODULE Spec2Model ----
(***************************************************************************)
(* A model of ICC/icc.py: the function icc(ratings, model, type, unit, r0, *)
(* confidence_level).  One call of icc is one behaviour: the inputs are    *)
(* chosen in Init, and the actions follow the statements of the function   *)
(* in program order (shape unpacking, variance decomposition, the branch   *)
(* selected by unit/model/type, the return statement).                     *)
(*                                                                         *)
(* Floating-point numbers are modelled as exact extended rationals         *)
(* [n, d] with d >= 0: d > 0 is the finite number n/d in lowest terms,     *)
(* [1,0] is +inf, [-1,0] is -inf and [0,0] is nan, which is what numpy     *)
(* produces (with a warning, not an exception) on a division by zero.      *)
(* Rounding is not modelled.  A numpy array of shape (K,) is a sequence    *)
(* of K such numbers.                                                      *)
(*                                                                         *)
(* pvalue, lbound and ubound come from scipy's F distribution (f.cdf,      *)
(* f.ppf), which is outside the repository; they never raise and are not   *)
(* part of the state.                                                      *)
(***************************************************************************)
EXTENDS Integers, Sequences, FiniteSets, TLC

\* ------------------------------------------------------------------------
\* Bounds of the explored inputs
\* ------------------------------------------------------------------------
MaxN == 2   \* largest number of rows (subjects) of an enumerated matrix
MaxK == 2   \* largest number of columns (raters) of an enumerated matrix

\* Entries of the enumerated matrices.
Vals == {-1, 2}

\* ------------------------------------------------------------------------
\* Extended rational arithmetic (float64 without rounding)
\* ------------------------------------------------------------------------
Abs(x) == IF x < 0 THEN -x ELSE x

Sign(x) == IF x < 0 THEN -1 ELSE IF x > 0 THEN 1 ELSE 0

RECURSIVE GCD(_, _)
GCD(x, y) == IF y = 0 THEN x ELSE GCD(y, x % y)

\* n/d in lowest terms with a non-negative denominator; d = 0 gives
\* +inf, -inf or nan by the sign of n.
Norm(n, d) ==
    IF d = 0 THEN [n |-> Sign(n), d |-> 0]
    ELSE LET s == IF d < 0 THEN -1 ELSE 1
             g == GCD(Abs(n), Abs(d))
         IN  [n |-> (s * n) \div g, d |-> (s * d) \div g]

R(i) == [n |-> i, d |-> 1]

Zero == R(0)
One == R(1)
NaN == [n |-> 0, d |-> 0]

IsFinite(x) == x.d > 0
IsNaN(x) == x.d = 0 /\ x.n = 0

Neg(x) == [n |-> -x.n, d |-> x.d]

\* Sums and products cancel common factors before multiplying, which keeps
\* the intermediate integers small.
Add(x, y) ==
    IF IsFinite(x) /\ IsFinite(y)
    THEN LET g == GCD(x.d, y.d)
         IN  Norm(x.n * (y.d \div g) + y.n * (x.d \div g), (x.d \div g) * y.d)
    ELSE IF IsNaN(x) \/ IsNaN(y) THEN NaN
    ELSE IF IsFinite(x) THEN y
    ELSE IF IsFinite(y) THEN x
    ELSE IF x.n = y.n THEN x ELSE NaN

Sub(x, y) == Add(x, Neg(y))

Mul(x, y) ==
    IF IsFinite(x) /\ IsFinite(y)
    THEN LET g1 == GCD(Abs(x.n), y.d)
             g2 == GCD(Abs(y.n), x.d)
         IN  Norm((x.n \div g1) * (y.n \div g2), (x.d \div g2) * (y.d \div g1))
    ELSE Norm(x.n * y.n, 0)

\* 1/y with 1/0 = +inf (the zeros of the model are positive zeros).
Recip(y) ==
    IF y.n < 0 THEN [n |-> -y.d, d |-> -y.n] ELSE [n |-> y.d, d |-> y.n]

\* numpy true division: a zero divisor gives inf or nan, never an exception.
Div(x, y) == Mul(x, Recip(y))

\* ------------------------------------------------------------------------
\* numpy reductions
\* ------------------------------------------------------------------------
RECURSIVE SumSeq(_)
SumSeq(s) == IF s = << >> THEN Zero ELSE Add(Head(s), SumSeq(Tail(s)))

\* np.mean of a 1-D array
Mean(s) == Div(SumSeq(s), R(Len(s)))

\* np.var of a 1-D array (ddof = 0): mean(abs(x - x.mean())**2)
Var(s) ==
    LET m == Mean(s)
    IN  Mean([i \in DOMAIN s |-> Mul(Sub(s[i], m), Sub(s[i], m))])

\* ratings as float64 numbers
AsFloat(mat) == [i \in DOMAIN mat |-> [j \in DOMAIN mat[i] |-> R(mat[i][j])]]

Column(mat, j) == [i \in DOMAIN mat |-> mat[i][j]]

RECURSIVE Flatten(_)
Flatten(mat) == IF mat = << >> THEN << >> ELSE Head(mat) \o Flatten(Tail(mat))

\* np.mean(ratings, axis=0): one mean per column
MeanAxis0(mat) == [j \in DOMAIN mat[1] |-> Mean(Column(mat, j))]

\* np.var(ratings, axis=0): one population variance per column
VarAxis0(mat) == [j \in DOMAIN mat[1] |-> Var(Column(mat, j))]

\* np.mean(ratings, axis=1): one mean per row
MeanAxis1(mat) == [i \in DOMAIN mat |-> Mean(mat[i])]

\* ------------------------------------------------------------------------
\* Inputs
\* ------------------------------------------------------------------------
\* The matrix of Shrout & Fleiss (1979) used by the tests.
ShroutRatings ==
    << <<9, 2, 5, 8>>, <<6, 1, 3, 2>>, <<8, 4, 6, 8>>,
       <<7, 1, 2, 6>>, <<10, 5, 6, 9>>, <<6, 2, 4, 7>> >>

\* The matrix of Koo & Li (2016), case 1: np.vstack((x, y)).T with y = x.
KooLiRatings == << <<4, 4>>, <<8, 8>>, <<12, 12>>, <<16, 16>>, <<20, 20>> >>

\* 1-D arrays, such as np.array([4, 2]) of the tests.
OneDimInputs ==
    UNION {[1..n -> Vals] : n \in 1..MaxK} \cup {<<4, 2>>}

\* 2-D arrays of shape (N, K).
TwoDimInputs ==
    UNION {[1..N -> [1..K -> Vals]] : N \in 1..MaxN, K \in 1..MaxK}
        \cup {ShroutRatings, KooLiRatings}

Models == {"oneway", "twoway", "foo"}
Types == {"consistency", "agreement", "bar"}
Units == {"single", "average", "baz"}

\* Null-hypothesis values r0.
R0s == {Zero, Norm(1, 2), One, R(-1)}

\* ------------------------------------------------------------------------
\* State
\* ------------------------------------------------------------------------
VARIABLES
    ndim,        \* number of dimensions of ratings (len(ratings.shape))
    ratings,     \* the input array: a sequence (1-D) or a sequence of rows (2-D)
    model, type, unit, r0,   \* the configuration arguments
    pc,          \* position in icc: "start", "decompose", "dispatch", "return", "done"
    outcome,     \* "running", "returned", or the name of the exception raised
    n_subjects, n_raters,
    SStotal, MSr, MSw, MSc, MSe,
    bound,       \* the result locals assigned so far
    coeff, Fvalue, df1, df2,
    a, b         \* the weights of MSc and MSe in the twoway/agreement branches

vars == <<ndim, ratings, model, type, unit, r0, pc, outcome, n_subjects, n_raters,
          SStotal, MSr, MSw, MSc, MSe, bound, coeff, Fvalue, df1, df2, a, b>>

inputs == <<ndim, ratings, model, type, unit, r0>>
decomposition == <<SStotal, MSr, MSw, MSc, MSe>>
results == <<bound, coeff, Fvalue, df1, df2, a, b>>

Init ==
    /\ \/ ndim = 1 /\ ratings \in OneDimInputs
       \/ ndim = 2 /\ ratings \in TwoDimInputs
    /\ model \in Models
    /\ type \in Types
    /\ unit \in Units
    /\ r0 \in R0s
    /\ pc = "start"
    /\ outcome = "running"
    /\ n_subjects = 0
    /\ n_raters = 0
    /\ SStotal = Zero
    /\ MSr = << >>
    /\ MSw = Zero
    /\ MSc = Zero
    /\ MSe = << >>
    /\ bound = {}
    /\ coeff = << >>
    /\ Fvalue = << >>
    /\ df1 = 0
    /\ df2 = 0
    /\ a = << >>
    /\ b = << >>

\* ------------------------------------------------------------------------
\* n_subjects, n_raters = ratings.shape
\* ------------------------------------------------------------------------
Shape == IF ndim = 1 THEN <<Len(ratings)>> ELSE <<Len(ratings), Len(ratings[1])>>

\* Unpacking a tuple into two names raises ValueError unless it has two items.
UnpackShape ==
    /\ pc = "start"
    /\ IF Len(Shape) = 2
       THEN /\ n_subjects' = Shape[1]
            /\ n_raters' = Shape[2]
            /\ pc' = "decompose"
            /\ outcome' = outcome
       ELSE /\ outcome' = "ValueError"
            /\ pc' = "done"
            /\ UNCHANGED <<n_subjects, n_raters>>
    /\ UNCHANGED <<inputs, decomposition, results>>

\* ------------------------------------------------------------------------
\* The variance decomposition
\* ------------------------------------------------------------------------
\* SStotal = np.var(ratings) * (n_subjects * n_raters - 1)
SStotalOf(mat, N, K) == Mul(Var(Flatten(mat)), R(N * K - 1))

\* MSr = np.mean(ratings, axis=0) * n_raters : an array of shape (K,)
MSrOf(mat, K) == LET m == MeanAxis0(mat) IN [j \in DOMAIN m |-> Mul(m[j], R(K))]

\* MSw = np.sum(np.var(ratings, axis=0) / n_subjects)
MSwOf(mat, N) == LET w == VarAxis0(mat) IN SumSeq([j \in DOMAIN w |-> Div(w[j], R(N))])

\* MSc = np.var(np.mean(ratings, axis=1)) * n_subjects
MScOf(mat, N) == Mul(Var(MeanAxis1(mat)), R(N))

\* MSe = (SStotal - MSr * (N - 1) - MSc * (K - 1)) / ((N - 1) * (K - 1)),
\* elementwise over the array MSr
MSeOf(sst, msr, msc, N, K) ==
    [j \in DOMAIN msr |->
        Div(Sub(Sub(sst, Mul(msr[j], R(N - 1))), Mul(msc, R(K - 1))),
            R((N - 1) * (K - 1)))]

Decompose ==
    /\ pc = "decompose"
    /\ LET mat == AsFloat(ratings)
           sst == SStotalOf(mat, n_subjects, n_raters)
           msr == MSrOf(mat, n_raters)
           msc == MScOf(mat, n_subjects)
       IN  /\ SStotal' = sst
           /\ MSr' = msr
           /\ MSw' = MSwOf(mat, n_subjects)
           /\ MSc' = msc
           /\ MSe' = MSeOf(sst, msr, msc, n_subjects, n_raters)
    /\ pc' = "dispatch"
    /\ UNCHANGED <<inputs, outcome, n_subjects, n_raters, results>>

\* ------------------------------------------------------------------------
\* Expressions of the six branches (on one element of the arrays)
\* ------------------------------------------------------------------------
\* The same expression without the parentheses around MSr - MSw:
\* MSr - MSw / (MSr + (n_raters - 1) * MSw)
CoeffSingleOneway_NoParens(msr, msw, K) ==
    Sub(msr, Div(msw, Add(msr, Mul(R(K - 1), msw))))

\* coeff = (MSr - MSw) / (MSr + (n_raters - 1) * MSw)
CoeffSingleOneway(msr, msw, K) ==
    Div(Sub(msr, msw), Add(msr, Mul(R(K - 1), msw)))

\* coeff = (MSr - MSe) / (MSr + (n_raters - 1) * MSe)
CoeffSingleConsistency(msr, mse, K) ==
    Div(Sub(msr, mse), Add(msr, Mul(R(K - 1), mse)))

\* coeff = (MSr - MSe) / (MSr + (n_raters - 1) * MSe + (n_raters / n_subjects) * (MSc - MSe))
CoeffSingleAgreement(msr, msc, mse, N, K) ==
    Div(Sub(msr, mse),
        Add(Add(msr, Mul(R(K - 1), mse)), Mul(Norm(K, N), Sub(msc, mse))))

\* coeff = (MSr - MSw) / MSr
CoeffAverageOneway(msr, msw) == Div(Sub(msr, msw), msr)

\* coeff = (MSr - MSe) / MSr
CoeffAverageConsistency(msr, mse) == Div(Sub(msr, mse), msr)

\* coeff = (MSr - MSe) / (MSr + (MSc - MSe) / n_subjects)
CoeffAverageAgreement(msr, msc, mse, N) ==
    Div(Sub(msr, mse), Add(msr, Div(Sub(msc, mse), R(N))))

\* The divisor of (1 - r0) / (1 + (n_raters - 1) * r0).  r0 is a Python
\* number, so a zero divisor raises ZeroDivisionError.
R0DivisorSingle(r, K) == Add(One, Mul(R(K - 1), r))

\* Fvalue = MSr / MS * ((1 - r0) / (1 + (n_raters - 1) * r0))
FvalueSingle(msr, ms, r, K) ==
    Mul(Div(msr, ms), Div(Sub(One, r), R0DivisorSingle(r, K)))

\* Fvalue = MSr / MS * (1 - r0)
FvalueAverage(msr, ms, r) == Mul(Div(msr, ms), Sub(One, r))

\* df2 = n_subjects * (n_raters - 1)
Df2Oneway(N, K) == N * (K - 1)

\* df2 = (n_subjects - 1) * (n_raters - 1)
Df2Consistency(N, K) == (N - 1) * (K - 1)

\* The divisor n_subjects * (1 - r0) of the weights a, b derived from r0
\* (Python numbers: zero raises ZeroDivisionError).
R0DivisorAgreement(r, N) == Mul(R(N), Sub(One, r))

\* a = (n_raters * r0) / (n_subjects * (1 - r0))
ASingleFromR0(r, N, K) == Div(Mul(R(K), r), R0DivisorAgreement(r, N))

\* b = 1 + (n_raters * r0 * (n_subjects - 1)) / (n_subjects * (1 - r0))
BSingleFromR0(r, N, K) ==
    Add(One, Div(Mul(Mul(R(K), r), R(N - 1)), R0DivisorAgreement(r, N)))

\* a = r0 / (n_subjects * (1 - r0))
AAverageFromR0(r, N) == Div(r, R0DivisorAgreement(r, N))

\* b = 1 + (r0 * (n_subjects - 1)) / (n_subjects * (1 - r0))
BAverageFromR0(r, N) == Add(One, Div(Mul(r, R(N - 1)), R0DivisorAgreement(r, N)))

\* Fvalue = MSr / (a * MSc + b * MSe)
FvalueAgreement(msr, msc, mse, wa, wb) ==
    Div(msr, Add(Mul(wa, msc), Mul(wb, mse)))

\* a = (n_raters * coeff) / (n_subjects * (1 - coeff)), on one element of
\* the array coeff (numpy division: 1 - coeff = 0 gives inf or nan)
AFromCoeff(c, N, K) == Div(Mul(R(K), c), Mul(R(N), Sub(One, c)))

\* b = 1 + (n_raters * coeff * (n_subjects - 1)) / (n_subjects * (1 - coeff))
BFromCoeff(c, N, K) ==
    Add(One, Div(Mul(Mul(R(K), c), R(N - 1)), Mul(R(N), Sub(One, c))))

\* v = (a * MSc + b * MSe) ^ 2 / ((a * MSc) ^ 2 / (n_raters - 1)
\*                                + (b * MSe) ^ 2 / ((n_subjects - 1) * (n_raters - 1)))
\* In Python ^ is the bitwise exclusive or and binds less tightly than / and
\* +, so the innermost operation evaluated is (a * MSc) ^ (2 / (n_raters - 1)
\* + (b * MSe)), an exclusive or of two float64 arrays.
\* The operands of ^ in the expression of v are float64 arrays (np.mean and
\* np.var return float64), and ^ is numpy's bitwise_xor, which is defined
\* for integer and boolean arrays only: on any other dtype it raises TypeError.
OperandDtype == "float64"

XorDefinedFor(dtype) == dtype \in {"int64", "bool"}

\* ------------------------------------------------------------------------
\* The branch selection (if/elif chains on unit, model, type)
\* ------------------------------------------------------------------------
IsSingle == unit = "single"
IsAverage == unit = "average"
\* A variant of the oneway test that also looks at type.
IsOneway_AgreementOnly == model = "oneway" /\ type = "agreement"

IsOneway == model = "oneway"
IsTwowayConsistency == model = "twoway" /\ type = "consistency"
IsTwowayAgreement == model = "twoway" /\ type = "agreement"

\* Oneway and twoway/consistency branches: coeff, Fvalue, df1, df2.
\* c is the branch's coeff, F its Fvalue, zd tells whether the Python
\* division of the Fvalue statement has a zero divisor.
PlainBranch(c, F, zd, d2) ==
    /\ coeff' = c
    /\ UNCHANGED <<a, b>>
    /\ IF zd
       THEN /\ bound' = {"coeff"}
            /\ outcome' = "ZeroDivisionError"
            /\ pc' = "done"
            /\ UNCHANGED <<Fvalue, df1, df2>>
       ELSE /\ Fvalue' = F
            /\ df1' = n_subjects - 1
            /\ df2' = d2
            /\ bound' = {"coeff", "Fvalue", "df1", "df2"}
            /\ outcome' = outcome
            /\ pc' = "return"
    /\ UNCHANGED <<inputs, n_subjects, n_raters, decomposition>>

\* Twoway/agreement branches (c is the branch's coeff, a0 and b0 the weights
\* derived from r0): coeff, a and b from r0, Fvalue, a and b from coeff, then
\* the expression of v, df1 and df2.
AgreementBranch(c, a0, b0) ==
    /\ coeff' = c
    /\ IF R0DivisorAgreement(r0, n_subjects) = Zero
       THEN /\ bound' = {"coeff"}
            /\ outcome' = "ZeroDivisionError"
            /\ pc' = "done"
            /\ UNCHANGED <<Fvalue, df1, df2, a, b>>
       ELSE /\ Fvalue' = [j \in DOMAIN MSr |-> FvalueAgreement(MSr[j], MSc, MSe[j], a0, b0)]
            /\ a' = [j \in DOMAIN c |-> AFromCoeff(c[j], n_subjects, n_raters)]
            /\ b' = [j \in DOMAIN c |-> BFromCoeff(c[j], n_subjects, n_raters)]
            /\ IF XorDefinedFor(OperandDtype)
               THEN \* not reached: the operands are never integer arrays
                    /\ df1' = n_subjects - 1
                    /\ df2' = df2
                    /\ bound' = {"coeff", "Fvalue", "a", "b", "df1", "df2"}
                    /\ outcome' = outcome
                    /\ pc' = "return"
               ELSE /\ bound' = {"coeff", "Fvalue", "a", "b"}
                    /\ outcome' = "TypeError"
                    /\ pc' = "done"
                    /\ UNCHANGED <<df1, df2>>
    /\ UNCHANGED <<inputs, n_subjects, n_raters, decomposition>>

SingleOneway ==
    /\ pc = "dispatch"
    /\ IsSingle /\ IsOneway
    /\ LET c == [j \in DOMAIN MSr |-> CoeffSingleOneway(MSr[j], MSw, n_raters)]
           F == [j \in DOMAIN MSr |-> FvalueSingle(MSr[j], MSw, r0, n_raters)]
       IN  PlainBranch(c, F, R0DivisorSingle(r0, n_raters) = Zero,
                       Df2Oneway(n_subjects, n_raters))

SingleTwowayConsistency ==
    /\ pc = "dispatch"
    /\ IsSingle /\ ~IsOneway /\ IsTwowayConsistency
    /\ LET c == [j \in DOMAIN MSr |-> CoeffSingleConsistency(MSr[j], MSe[j], n_raters)]
           F == [j \in DOMAIN MSr |-> FvalueSingle(MSr[j], MSe[j], r0, n_raters)]
       IN  PlainBranch(c, F, R0DivisorSingle(r0, n_raters) = Zero,
                       Df2Consistency(n_subjects, n_raters))

SingleTwowayAgreement ==
    /\ pc = "dispatch"
    /\ IsSingle /\ ~IsOneway /\ ~IsTwowayConsistency /\ IsTwowayAgreement
    /\ LET c == [j \in DOMAIN MSr |-> CoeffSingleAgreement(MSr[j], MSc, MSe[j], n_subjects, n_raters)]
       IN  AgreementBranch(c, ASingleFromR0(r0, n_subjects, n_raters),
                           BSingleFromR0(r0, n_subjects, n_raters))

AverageOneway ==
    /\ pc = "dispatch"
    /\ ~IsSingle /\ IsAverage /\ IsOneway
    /\ LET c == [j \in DOMAIN MSr |-> CoeffAverageOneway(MSr[j], MSw)]
           F == [j \in DOMAIN MSr |-> FvalueAverage(MSr[j], MSw, r0)]
       IN  PlainBranch(c, F, FALSE, Df2Oneway(n_subjects, n_raters))

AverageTwowayConsistency ==
    /\ pc = "dispatch"
    /\ ~IsSingle /\ IsAverage /\ ~IsOneway /\ IsTwowayConsistency
    /\ LET c == [j \in DOMAIN MSr |-> CoeffAverageConsistency(MSr[j], MSe[j])]
           F == [j \in DOMAIN MSr |-> FvalueAverage(MSr[j], MSe[j], r0)]
       IN  PlainBranch(c, F, FALSE, Df2Consistency(n_subjects, n_raters))

AverageTwowayAgreement ==
    /\ pc = "dispatch"
    /\ ~IsSingle /\ IsAverage /\ ~IsOneway /\ ~IsTwowayConsistency /\ IsTwowayAgreement
    /\ LET c == [j \in DOMAIN MSr |-> CoeffAverageAgreement(MSr[j], MSc, MSe[j], n_subjects)]
       IN  AgreementBranch(c, AAverageFromR0(r0, n_subjects),
                           BAverageFromR0(r0, n_subjects))

\* No branch of the if/elif chains is taken: nothing is assigned.
BranchTaken ==
    (IsSingle \/ IsAverage) /\ (IsOneway \/ IsTwowayConsistency \/ IsTwowayAgreement)

NoBranch ==
    /\ pc = "dispatch"
    /\ ~BranchTaken
    /\ pc' = "return"
    /\ UNCHANGED <<inputs, outcome, n_subjects, n_raters, decomposition, results>>

\* return coeff, Fvalue, df1, df2, pvalue, lbound, ubound
\* Reading a local that no branch assigned raises UnboundLocalError.
Return ==
    /\ pc = "return"
    /\ outcome' = IF "coeff" \in bound THEN "returned" ELSE "UnboundLocalError"
    /\ pc' = "done"
    /\ UNCHANGED <<inputs, n_subjects, n_raters, decomposition, results>>

Next ==
    \/ UnpackShape
    \/ Decompose
    \/ SingleOneway
    \/ SingleTwowayConsistency
    \/ SingleTwowayAgreement
    \/ AverageOneway
    \/ AverageTwowayConsistency
    \/ AverageTwowayAgreement
    \/ NoBranch
    \/ Return

Spec == Init /\ [][Next]_vars

\* ------------------------------------------------------------------------
\* Vocabulary of the properties
\* ------------------------------------------------------------------------
Done == pc = "done"

\* ratings is a matrix with at least 2 subjects and at least 2 raters.
ValidShape == ndim = 2 /\ Len(ratings) >= 2 /\ Len(ratings[1]) >= 2

\* ratings is 1-D, or has one row, or has one column.
DegenerateShape == ndim = 1 \/ Len(ratings) = 1 \/ Len(ratings[1]) = 1

KnownEnums ==
    /\ model \in {"oneway", "twoway"}
    /\ type \in {"consistency", "agreement"}
    /\ unit \in {"single", "average"}

\* The six supported (model, type, unit) triples.
Supported ==
    /\ unit \in {"single", "average"}
    /\ \/ model = "oneway" /\ type = "agreement"
       \/ model = "twoway" /\ type \in {"consistency", "agreement"}

\* The four supported triples that are not twoway/agreement.
SupportedPlain == Supported /\ ~(model = "twoway" /\ type = "agreement")

\* The Python divisions by expressions of r0 have non-zero divisors.
R0WellDefined ==
    /\ Sub(One, r0) # Zero
    /\ ValidShape => Add(One, Mul(R(Len(ratings[1]) - 1), r0)) # Zero

\* Comparisons of finite numbers.
Leq(x, y) == Sub(x, y).n <= 0
Lt(x, y) == Sub(x, y).n < 0

\* floor(rem * 10^k / d) for 0 <= rem < d, by long division.
RECURSIVE Digits(_, _, _)
Digits(rem, d, k) ==
    IF k = 0 THEN 0
    ELSE (((rem * 10) \div d) * (10 ^ (k - 1))) + Digits((rem * 10) % d, d, k - 1)

\* x in units of 10^-7, rounded towards zero (for |x| < 100).
Scaled7(x) ==
    Sign(x.n) * (((Abs(x.n) \div x.d) * 10000000) + Digits(Abs(x.n) % x.d, x.d, 7))

\* |x - lit7 * 10^-7| <= tol7 * 10^-7, up to the last unit of 10^-7.
ApproxEq(x, lit7, tol7) ==
    /\ IsFinite(x)
    /\ Abs(x.n) \div x.d < 100
    /\ Abs(Scaled7(x) - lit7) <= tol7 + 1

\* ------------------------------------------------------------------------
\* C1
\* ------------------------------------------------------------------------
\* C1: every call whose ratings input is 1-D, or has shape (1, K), or has
\* shape (N, 1), ends in the invalid-input error (ValueError) and returns no
\* result tuple, whatever model, type and unit are (r0 at its default).
C1_DegenerateShapeRaisesValueError ==
    (Done /\ DegenerateShape /\ r0 = Zero) => outcome = "ValueError"

\* ------------------------------------------------------------------------
\* C2
\* ------------------------------------------------------------------------
\* C2: for N >= 2 and K >= 2, a call whose model, type or unit is not one of
\* the known values ends in the unsupported-configuration error (ValueError):
\* it never returns a value and never fails with another kind of error
\* (r0 at its default).
C2_UnknownEnumRaisesValueError ==
    (Done /\ ValidShape /\ ~KnownEnums /\ r0 = Zero) => outcome = "ValueError"

\* ------------------------------------------------------------------------
\* C3
\* ------------------------------------------------------------------------
\* C3 as stated: for N >= 2, K >= 2 and both units, a call with
\* model='oneway' and type='consistency' is rejected with the
\* unsupported-configuration error (ValueError) instead of returning the
\* one-way result (r0 at its default).
C3_OnewayConsistencyRejected ==
    (Done /\ ValidShape /\ unit \in {"single", "average"}
        /\ model = "oneway" /\ type = "consistency" /\ r0 = Zero)
    => outcome = "ValueError"

\* C3 as amended: such a call is never rejected as unsupported.  The oneway
\* branch does not look at type: the call returns the one-way coeff, df1 and
\* df2, except that with unit='single' and 1 + (K-1)*r0 = 0 the F statistic
\* raises ZeroDivisionError.
C3_OnewayConsistencyReturnsOneway ==
    (Done /\ ValidShape /\ unit \in {"single", "average"}
        /\ model = "oneway" /\ type = "consistency")
    => IF unit = "single" /\ Add(One, Mul(R(n_raters - 1), r0)) = Zero
       THEN outcome = "ZeroDivisionError"
       ELSE /\ outcome = "returned"
            /\ DOMAIN coeff = 1..n_raters
            /\ \A j \in 1..n_raters :
                  coeff[j] = IF unit = "single"
                             THEN Div(Sub(MSr[j], MSw), Add(MSr[j], Mul(R(n_raters - 1), MSw)))
                             ELSE Div(Sub(MSr[j], MSw), MSr[j])
            /\ df1 = n_subjects - 1
            /\ df2 = n_subjects * (n_raters - 1)

\* A call with the default model and type on a valid matrix that returned.
C3_Witness ==
    /\ Done /\ ValidShape
    /\ model = "oneway" /\ type = "consistency" /\ unit = "single"
    /\ outcome = "returned"
    /\ "coeff" \in bound

\* ------------------------------------------------------------------------
\* C4
\* ------------------------------------------------------------------------
\* The literature values of the tests, in units of 10^-7.
ShroutCoeff7 ==
    IF unit = "single"
    THEN IF model = "oneway" THEN 1657418
         ELSE IF type = "agreement" THEN 2897638 ELSE 7148407
    ELSE IF model = "oneway" THEN 4427971
         ELSE IF type = "agreement" THEN 6200505 ELSE 9093155

\* C4: on the 6 x 4 matrix of Shrout & Fleiss with the default r0, each of
\* the six supported calls returns a coeff that is a single number within
\* 0.001 of the literature value.
C4_ShroutCoeffMatchesLiterature ==
    (Done /\ ndim = 2 /\ ratings = ShroutRatings /\ r0 = Zero /\ Supported)
    => /\ outcome = "returned"
       /\ \A j \in DOMAIN coeff : ApproxEq(coeff[j], ShroutCoeff7, 10000)

\* ------------------------------------------------------------------------
\* C5
\* ------------------------------------------------------------------------
\* All rater columns are identical and the subjects' scores are not all equal.
PerfectAgreement ==
    /\ \A i \in DOMAIN ratings : \A j \in DOMAIN ratings[i] : ratings[i][j] = ratings[i][1]
    /\ \E i \in DOMAIN ratings : ratings[i][1] # ratings[1][1]

\* C5: for N >= 2, K >= 2 and perfect agreement between the raters, each of
\* the six supported calls returns coeff = 1 within 0.01 (r0 at its default).
C5_PerfectAgreementGivesOne ==
    (Done /\ ValidShape /\ PerfectAgreement /\ r0 = Zero /\ Supported)
    => /\ outcome = "returned"
       /\ \A j \in DOMAIN coeff : ApproxEq(coeff[j], 10000000, 100000)

\* ------------------------------------------------------------------------
\* C6
\* ------------------------------------------------------------------------
\* The table's closed form of coeff for the call's triple, on one element
\* of the mean squares.
TableCoeff(msr, msw, msc, mse, N, K) ==
    IF unit = "single"
    THEN IF model = "oneway"
         THEN Div(Sub(msr, msw), Add(msr, Mul(R(K - 1), msw)))
         ELSE IF type = "consistency"
         THEN Div(Sub(msr, mse), Add(msr, Mul(R(K - 1), mse)))
         ELSE Div(Sub(msr, mse),
                  Add(Add(msr, Mul(R(K - 1), mse)), Mul(Norm(K, N), Sub(msc, mse))))
    ELSE IF model = "oneway"
         THEN Div(Sub(msr, msw), msr)
         ELSE IF type = "consistency"
         THEN Div(Sub(msr, mse), msr)
         ELSE Div(Sub(msr, mse), Add(msr, Div(Sub(msc, mse), R(N))))

\* C6: for each of the six supported triples, the coeff returned by icc is
\* exactly the table's closed form in the call's mean squares, N and K.
C6_ReturnedCoeffIsTableForm ==
    (Done /\ ValidShape /\ Supported /\ R0WellDefined)
    => /\ outcome = "returned"
       /\ DOMAIN coeff = DOMAIN MSr
       /\ \A j \in DOMAIN coeff :
             coeff[j] = TableCoeff(MSr[j], MSw, MSc, MSe[j], n_subjects, n_raters)

\* ------------------------------------------------------------------------
\* C7
\* ------------------------------------------------------------------------
\* C7: for N >= 2, K >= 2 and every r0, icc returns df1 = N-1 for all
\* supported variants, df2 = N(K-1) for the oneway variants and
\* df2 = (N-1)(K-1) for the twoway/consistency variants.
C7_DegreesOfFreedomFromShape ==
    (Done /\ ValidShape /\ Supported /\ R0WellDefined)
    => /\ outcome = "returned"
       /\ df1 = Len(ratings) - 1
       /\ model = "oneway" => df2 = Len(ratings) * (Len(ratings[1]) - 1)
       /\ (model = "twoway" /\ type = "consistency")
             => df2 = (Len(ratings) - 1) * (Len(ratings[1]) - 1)

\* ------------------------------------------------------------------------
\* C8
\* ------------------------------------------------------------------------
\* The denominator of the table's closed form of coeff.
TableDenominator(msr, msw, msc, mse, N, K) ==
    IF unit = "single"
    THEN IF model = "oneway" THEN Add(msr, Mul(R(K - 1), msw))
         ELSE IF type = "consistency" THEN Add(msr, Mul(R(K - 1), mse))
         ELSE Add(Add(msr, Mul(R(K - 1), mse)), Mul(Norm(K, N), Sub(msc, mse)))
    ELSE IF model = "twoway" /\ type = "agreement"
         THEN Add(msr, Div(Sub(msc, mse), R(N)))
         ELSE msr

\* Element j of the call has non-negative mean squares and a non-zero
\* coefficient denominator.
WellPosed(j) ==
    /\ Leq(Zero, MSr[j]) /\ Leq(Zero, MSw) /\ Leq(Zero, MSc) /\ Leq(Zero, MSe[j])
    /\ TableDenominator(MSr[j], MSw, MSc, MSe[j], n_subjects, n_raters) # Zero

\* C8 as stated: for every supported configuration and every matrix with
\* N >= 2, K >= 2 whose mean squares are non-negative and whose coefficient
\* denominator is non-zero, the returned coeff satisfies -1 <= coeff <= 1.
C8_CoeffInMinusOneToOne ==
    (Done /\ ValidShape /\ Supported /\ outcome = "returned"
        /\ \A j \in DOMAIN coeff : WellPosed(j))
    => \A j \in DOMAIN coeff : Leq(R(-1), coeff[j]) /\ Leq(coeff[j], One)

\* C8 as amended: for the four configurations that are not twoway/agreement,
\* every element of the returned coeff whose mean squares are non-negative
\* and whose denominator is non-zero satisfies coeff <= 1, and -1 <= coeff
\* when unit is single; with unit average, coeff = 1 - MS/MSr has no lower
\* bound.
C8_CoeffBounds ==
    (Done /\ ValidShape /\ SupportedPlain /\ outcome = "returned")
    => \A j \in DOMAIN coeff :
          WellPosed(j) =>
              /\ Leq(coeff[j], One)
              /\ unit = "single" => Leq(R(-1), coeff[j])

\* A single-unit call returned a negative coeff from non-negative mean squares
\* with the within mean square above the subjects' one.
C8_Witness ==
    /\ Done /\ ValidShape /\ SupportedPlain /\ outcome = "returned"
    /\ unit = "single"
    /\ \E j \in DOMAIN coeff : WellPosed(j) /\ Lt(coeff[j], Zero)

\* ------------------------------------------------------------------------
\* C9
\* ------------------------------------------------------------------------
\* The F statistic of the specification's formula on one element.
TableFvalue(msr, ms, K) ==
    IF unit = "single"
    THEN Mul(Div(msr, ms), Div(Sub(One, r0), Add(One, Mul(R(K - 1), r0))))
    ELSE Mul(Div(msr, ms), Sub(One, r0))

\* C9: for the four variants that are not twoway/agreement and every r0, the
\* returned Fvalue is (MSr/MS)*((1-r0)/(1+(K-1)*r0)) for unit single and
\* (MSr/MS)*(1-r0) for unit average, MS being MSw for oneway and MSe for
\* twoway/consistency; with r0 = 0 on the 6 x 4 test matrix it is 1.794678
\* for oneway and 11.027248 for twoway/consistency, for both units.
C9_FvalueOfPlainVariants ==
    (Done /\ ValidShape /\ SupportedPlain /\ R0WellDefined)
    => /\ outcome = "returned"
       /\ DOMAIN Fvalue = DOMAIN MSr
       /\ \A j \in DOMAIN Fvalue :
             /\ Fvalue[j] = TableFvalue(MSr[j], IF model = "oneway" THEN MSw ELSE MSe[j],
                                        n_raters)
             /\ (ratings = ShroutRatings /\ r0 = Zero) =>
                   ApproxEq(Fvalue[j],
                            IF model = "oneway" THEN 17946780 ELSE 110272480, 10000)

\* ------------------------------------------------------------------------
\* C10
\* ------------------------------------------------------------------------
\* The variance of a sequence with denominator n - 1.
SampleVar(s) ==
    LET m == Mean(s)
    IN  Div(SumSeq([i \in DOMAIN s |-> Mul(Sub(s[i], m), Sub(s[i], m))]), R(Len(s) - 1))

\* The between-subjects mean square: K times the variance of the N
\* per-subject mean ratings.
BetweenSubjectsMS(mat) == Mul(R(Len(mat[1])), SampleVar(MeanAxis1(mat)))

\* The between-raters mean square: N times the variance of the K per-rater
\* mean ratings.
BetweenRatersMS(mat) == Mul(R(Len(mat)), SampleVar(MeanAxis0(mat)))

Decomposed == pc \in {"dispatch", "return", "done"}

\* C10: for N >= 2, K >= 2 the variance decomposition yields MSr equal to
\* the between-subjects mean square and MSc equal to the between-raters mean
\* square, so that MSe is the non-negative residual mean square.
C10_StandardMeanSquares ==
    (Decomposed /\ ValidShape)
    => /\ \A j \in DOMAIN MSr : MSr[j] = BetweenSubjectsMS(AsFloat(ratings))
       /\ MSc = BetweenRatersMS(AsFloat(ratings))
       /\ \A j \in DOMAIN MSe : Leq(Zero, MSe[j])

\* ------------------------------------------------------------------------
\* C11
\* ------------------------------------------------------------------------
Square(x) == Mul(x, x)

\* The Satterthwaite degrees of freedom
\* (wa*MSc + wb*MSe)^2 / ((wa*MSc)^2/(K-1) + (wb*MSe)^2/((N-1)(K-1))),
\* with ^2 the arithmetic square.
SatterthwaiteV(wa, wb, msc, mse, N, K) ==
    Div(Square(Add(Mul(wa, msc), Mul(wb, mse))),
        Add(Div(Square(Mul(wa, msc)), R(K - 1)),
            Div(Square(Mul(wb, mse)), R((N - 1) * (K - 1)))))

\* The weights implied by the null hypothesis r0, for the call's unit.
WeightAOfR0 ==
    IF unit = "single"
    THEN Div(Mul(R(n_raters), r0), Mul(R(n_subjects), Sub(One, r0)))
    ELSE Div(r0, Mul(R(n_subjects), Sub(One, r0)))

WeightBOfR0 ==
    IF unit = "single"
    THEN Add(One, Div(Mul(Mul(R(n_raters), r0), R(n_subjects - 1)),
                      Mul(R(n_subjects), Sub(One, r0))))
    ELSE Add(One, Div(Mul(r0, R(n_subjects - 1)), Mul(R(n_subjects), Sub(One, r0))))

\* The weights implied by the estimate c.
WeightAOfCoeff(c) == Div(Mul(R(n_raters), c), Mul(R(n_subjects), Sub(One, c)))

WeightBOfCoeff(c) ==
    Add(One, Div(Mul(Mul(R(n_raters), c), R(n_subjects - 1)),
                 Mul(R(n_subjects), Sub(One, c))))

TwowayAgreementCall ==
    unit \in {"single", "average"} /\ model = "twoway" /\ type = "agreement"

\* C11: for both twoway/agreement variants and N >= 2, K >= 2, the call
\* returns df2 = v, the Satterthwaite degrees of freedom computed with
\* arithmetic squares and with the weights a, b recomputed from the estimated
\* coeff, while Fvalue = MSr/(a*MSc + b*MSe) uses the weights derived from r0.
C11_SatterthwaiteDf2Returned ==
    (Done /\ ValidShape /\ TwowayAgreementCall /\ Sub(One, r0) # Zero)
    => /\ outcome = "returned"
       /\ DOMAIN Fvalue = DOMAIN MSr
       /\ \A j \in DOMAIN MSr :
             /\ Fvalue[j] = Div(MSr[j], Add(Mul(WeightAOfR0, MSc), Mul(WeightBOfR0, MSe[j])))
             /\ df2[j] = SatterthwaiteV(WeightAOfCoeff(coeff[j]), WeightBOfCoeff(coeff[j]),
                                        MSc, MSe[j], n_subjects, n_raters)

====
